---------------------------- MODULE Spec2Model ----------------------------
(***************************************************************************)
(* Model of the MP4 -> FLV remuxer (src/isobmff.h, src/flv.h,              *)
(* src/mp4toflv.cpp).                                                      *)
(*                                                                         *)
(* Fixed-width C++ unsigned integers are modelled as "words": little-      *)
(* endian sequences of bytes (4 bytes for uint32_t, 8 for uint64_t, 3 for  *)
(* the 24-bit FLV fields), so that wrap-around at 2^32 and 2^64 is exact.  *)
(* Streams and box payloads are sequences of bytes, 1-based in TLA+: the   *)
(* byte at C++ index k is the element k+1.                                 *)
(*                                                                         *)
(* Three specifications share the variables: SpecIndex calls the sample-   *)
(* table index functions on generated tables, Spec runs main() of          *)
(* mp4toflv.cpp on a set of input tracks, SpecParse runs Mp4Root::parse    *)
(* and Mp4Root::write on a set of byte streams.                            *)
(***************************************************************************)
EXTENDS Integers, Sequences, FiniteSets, TLC

---------------------------------------------------------------------------
(* Fixed-width unsigned arithmetic                                         *)

\* one byte holds 0..255; 256 is the radix of the word representation
Radix == 256

Byte == 0 .. (Radix - 1)

\* the word of `len` bytes whose value is n mod 256^len (n a small natural)
RECURSIVE FromInt(_, _)
FromInt(n, len) ==
    IF len = 0 THEN << >>
    ELSE << n % Radix >> \o FromInt(n \div Radix, len - 1)

\* uint32_t(n), uint64_t(n) for a small natural n
W32(n) == FromInt(n, 4)
W64(n) == FromInt(n, 8)

\* the value of a word, for words below 2^31 (see Small)
RECURSIVE ToInt(_)
ToInt(w) ==
    IF w = << >> THEN 0 ELSE w[1] + Radix * ToInt(Tail(w))

\* the word's value is below 2^23: it can be handled as a plain integer
Small(w) == \A k \in 1 .. Len(w) : (k >= 4 => w[k] = 0) /\ (k = 3 => w[k] < 128)

\* propagate carries through a sequence of column sums; the result has the
\* same length, i.e. the sum is reduced modulo 256^Len(s)
RECURSIVE Carry(_, _)
Carry(s, c) ==
    IF s = << >> THEN << >>
    ELSE LET v == s[1] + c
         IN  << v % Radix >> \o Carry(Tail(s), v \div Radix)

\* digit k of w, zero beyond its length (zero extension)
Digit(w, k) == IF k <= Len(w) THEN w[k] ELSE 0

\* conversion to a type of `len` bytes: truncation or zero extension
Cast(w, len) == [k \in 1 .. len |-> Digit(w, k)]

\* a + b in a type of `len` bytes
AddW(a, b, len) == Carry([k \in 1 .. len |-> Digit(a, k) + Digit(b, k)], 0)

\* a - b in a type of `len` bytes (two's complement: a + ~b + 1)
SubW(a, b, len) ==
    Carry([k \in 1 .. len |-> Digit(a, k) + (Radix - 1) - Digit(b, k)], 1)

\* column k of the schoolbook product
RECURSIVE Column(_, _, _, _)
Column(a, b, k, i) ==
    IF i > k THEN 0
    ELSE Digit(a, i) * Digit(b, k + 1 - i) + Column(a, b, k, i + 1)

\* a * b in a type of `len` bytes
MulW(a, b, len) == Carry([k \in 1 .. len |-> Column(a, b, k, 1)], 0)

\* a < b as unsigned numbers (the borrow of a - b over one more byte)
LtW(a, b) ==
    LET len == IF Len(a) > Len(b) THEN Len(a) ELSE Len(b)
    IN  SubW(a, b, len + 1)[len + 1] # 0

\* a / b (unsigned division, b # 0) in a type of `len` bytes: long division,
\* one quotient byte per step, most significant byte first.  The partial
\* remainder is below 256 * b, so for a small divisor the quotient byte is
\* an integer division; otherwise it is the largest q with q * b <= r.
RECURSIVE DivRem(_, _, _, _)
DivRem(a, b, k, len) ==
    IF k > len THEN [q |-> << >>, r |-> Cast(<< >>, len + 1)]
    ELSE LET hi  == DivRem(a, b, k + 1, len)
             r1  == Cast(<< Digit(a, k) >> \o hi.r, len + 1)
             qd  == IF Small(b) THEN ToInt(r1) \div ToInt(b)
                    ELSE CHOOSE q \in Byte :
                            /\ ~ LtW(r1, MulW(b, << q >>, len + 2))
                            /\ LtW(r1, MulW(b, << q + 1 >>, len + 2))
         IN  [q |-> << qd >> \o hi.q,
              r |-> SubW(r1, MulW(b, << qd >>, len + 1), len + 1)]

DivW(a, b, len) == DivRem(Cast(a, len), Cast(b, len), 1, len).q

---------------------------------------------------------------------------
(* FullBufBox: typed accessors over the raw payload `buf` (the bytes that  *)
(* follow the version/flags word of a FullBox)                             *)

\* buf[pos .. pos+3] lies inside the vector
InBuf(buf, pos) == pos >= 0 /\ pos + 4 <= Len(buf)

\* FullBufBox::ui32: big-endian 32-bit field at C++ index pos
ui32(buf, pos) == << buf[pos + 4], buf[pos + 3], buf[pos + 2], buf[pos + 1] >>

\* big-endian bytes of a word, as write24 / write32 emit them
RECURSIVE BigEndian(_)
BigEndian(w) ==
    IF w = << >> THEN << >> ELSE BigEndian(Tail(w)) \o << w[1] >>

---------------------------------------------------------------------------
(* BoxSTSC: the chunk-run table                                            *)

BoxSTSC_count(buf) == ui32(buf, 0)
BoxSTSC_first(buf, n) == ui32(buf, 4 + n * 12)
BoxSTSC_spc(buf, n) == ui32(buf, 4 + n * 12 + 4)

\* the loop with every earlier chunk counted as holding one sample: the
\* samples-per-chunk of the previous run is not applied
RECURSIVE stscLoopFlat(_, _, _, _, _, _, _)
stscLoopFlat(buf, n, i, ofs, ch, lch, lspc) ==
    IF ~ LtW(W32(i), ui32(buf, 0)) THEN ch
    ELSE LET ofs2 == AddW(ofs, SubW(ui32(buf, 4 + i * 12), lch, 4), 4)
         IN  IF LtW(n, ofs2) THEN ch
             ELSE stscLoopFlat(buf, n, i + 1, ofs2,
                               AddW(ui32(buf, 4 + i * 12),
                                    DivW(SubW(n, ofs2, 4),
                                         ui32(buf, 4 + i * 12 + 4), 4),
                                    4),
                               ui32(buf, 4 + i * 12),
                               ui32(buf, 4 + i * 12 + 4))

\* the for loop of BoxSTSC::sampleToChunk from iteration i on; all locals
\* are uint32_t, n is converted to uint32_t by the comparison and the
\* subtraction
RECURSIVE stscLoop(_, _, _, _, _, _, _)
stscLoop(buf, n, i, ofs, ch, lch, lspc) ==
    IF ~ LtW(W32(i), BoxSTSC_count(buf)) THEN ch
    ELSE LET ofs2 == AddW(ofs,
                          MulW(SubW(BoxSTSC_first(buf, i), lch, 4), lspc, 4),
                          4)
         IN  IF LtW(n, ofs2) THEN ch
             ELSE stscLoop(buf, n, i + 1, ofs2,
                           AddW(BoxSTSC_first(buf, i),
                                DivW(SubW(n, ofs2, 4), BoxSTSC_spc(buf, i), 4),
                                4),
                           BoxSTSC_first(buf, i),
                           BoxSTSC_spc(buf, i))

\* BoxSTSC::sampleToChunk(n): 0-based chunk of 0-based sample n
BoxSTSC_sampleToChunk(buf, n) ==
    SubW(stscLoop(buf, n, 0, W32(0), W32(1), W32(1), W32(1)), W32(1), 4)

---------------------------------------------------------------------------
(* BoxSTTS: the decode-time run table                                      *)

BoxSTTS_count(buf) == ui32(buf, 0)
BoxSTTS_runCount(buf, n) == ui32(buf, 4 + n * 8)
BoxSTTS_delta(buf, n) == ui32(buf, 4 + n * 8 + 4)

\* the for loop of BoxSTTS::sampleToTime from iteration i on: n, count(i)
\* and delta(i) are uint32_t, so both products are formed in 32 bits before
\* they are added to the uint64_t accumulator t
RECURSIVE sttsLoop(_, _, _, _)
sttsLoop(buf, n, i, t) ==
    IF ~ LtW(W32(i), BoxSTTS_count(buf)) THEN t
    ELSE IF LtW(n, BoxSTTS_runCount(buf, i))
         THEN AddW(t, MulW(n, BoxSTTS_delta(buf, i), 4), 8)
         ELSE sttsLoop(buf,
                       SubW(n, BoxSTTS_runCount(buf, i), 4),
                       i + 1,
                       AddW(t,
                            MulW(BoxSTTS_runCount(buf, i),
                                 BoxSTTS_delta(buf, i), 4),
                            8))

\* BoxSTTS::sampleToTime(n): a uint64_t
BoxSTTS_sampleToTime(buf, n) == sttsLoop(buf, n, 0, W64(0))

---------------------------------------------------------------------------
(* BoxCTTS: the composition-offset run table                               *)

BoxCTTS_count(buf) == ui32(buf, 0)
BoxCTTS_runCount(buf, n) == ui32(buf, 4 + 8 * n)
BoxCTTS_offset(buf, n) == ui32(buf, 4 + 8 * n + 4)

RECURSIVE cttsLoop(_, _, _, _, _)
cttsLoop(buf, n, i, ofs, s) ==
    IF ~ LtW(W32(i), BoxCTTS_count(buf)) THEN ofs
    ELSE LET s2 == AddW(s, BoxCTTS_runCount(buf, i), 4)
         IN  IF LtW(n, s2) THEN BoxCTTS_offset(buf, i)
             ELSE cttsLoop(buf, n, i + 1, BoxCTTS_offset(buf, i), s2)

\* BoxCTTS::sampleToOffset(n)
BoxCTTS_sampleToOffset(buf, n) == cttsLoop(buf, n, 0, W32(0), W32(0))

---------------------------------------------------------------------------
(* BoxSTCO and BoxSTSZ                                                     *)

\* A read past the end of the payload vector is undefined behaviour: it
\* yields whatever lies behind the vector, passed in here as `g`.

BoxSTCO_count(buf) == ui32(buf, 0)
\* BoxSTCO::offset(int pos) for pos = a uint32_t chunk index
BoxSTCO_offset(buf, pos, g) ==
    IF Small(pos) /\ InBuf(buf, 4 + ToInt(pos) * 4)
    THEN ui32(buf, 4 + ToInt(pos) * 4)
    ELSE g

BoxSTSZ_constantSize(buf) == ui32(buf, 0)
BoxSTSZ_count(buf) == ui32(buf, 4)
\* BoxSTSZ::size(int pos): always the array slot, whatever constantSize() is
BoxSTSZ_size(buf, pos, g) ==
    IF InBuf(buf, 8 + pos * 4) THEN ui32(buf, 8 + pos * 4) ELSE g

---------------------------------------------------------------------------
(* BoxMDHD and BoxSTSD; a FullBufBox is [version, buf]                     *)

BoxMDHD_timeScale(box) ==
    IF box.version = 0 THEN ui32(box.buf, 4 * 2) ELSE ui32(box.buf, 8 * 2)

\* operator | on two bytes, and on two words of the same width
OrByte(a, b) ==
    LET bit(v, k) == (v \div (2 ^ k)) % 2
        sum[k \in 0 .. 8] ==
            IF k = 8 THEN 0
            ELSE (IF bit(a, k) = 1 \/ bit(b, k) = 1 THEN 2 ^ k ELSE 0)
                 + sum[k + 1]
    IN  sum[0]
OrW(a, b) == [k \in 1 .. Len(a) |-> OrByte(a[k], b[k])]

\* FullBufBox::ui64: uint64_t h = ui32(pos); return h | ui32(pos+4);
ui64(buf, pos) == OrW(Cast(ui32(buf, pos), 8), Cast(ui32(buf, pos + 4), 8))

\* BoxMDHD accessors; a box is its version and its payload after the
\* version/flags word, the uint64_t ones widen the 32-bit field of version 0
BoxMDHD_created(box) ==
    IF box.version = 0 THEN Cast(ui32(box.buf, 0), 8) ELSE ui64(box.buf, 0)
BoxMDHD_modified(box) ==
    IF box.version = 0 THEN Cast(ui32(box.buf, 4), 8) ELSE ui64(box.buf, 8)
BoxMDHD_duration(box) ==
    IF box.version = 0 THEN Cast(ui32(box.buf, 4 * 2 + 4), 8)
    ELSE ui64(box.buf, 8 * 2 + 4)

\* BoxTKHD accessors
BoxTKHD_created(box) ==
    IF box.version = 0 THEN Cast(ui32(box.buf, 0), 8) ELSE ui64(box.buf, 0)
BoxTKHD_modified(box) ==
    IF box.version = 0 THEN Cast(ui32(box.buf, 4), 8) ELSE ui64(box.buf, 8)
BoxTKHD_trackId(box) ==
    IF box.version = 0 THEN ui32(box.buf, 4 * 2) ELSE ui32(box.buf, 8 * 2)
BoxTKHD_duration(box) ==
    IF box.version = 0 THEN Cast(ui32(box.buf, 4 * 2 + 4 * 2), 8)
    ELSE ui64(box.buf, 8 * 2 + 4 * 2)

\* BoxSTSD::desc(): std::string(&buf[12], ui32(4) - 8)
BoxSTSD_desc(buf) ==
    SubSeq(buf, 13, 12 + ToInt(SubW(ui32(buf, 4), W32(8), 4)))

\* (int) std::string::find: index of the first occurrence, -1 (npos) if none
StringFind(str, pat) ==
    LET hits == { k \in 0 .. (Len(str) - Len(pat)) :
                    SubSeq(str, k + 1, k + Len(pat)) = pat }
    IN  IF hits = {} THEN -1
        ELSE CHOOSE k \in hits : \A j \in hits : k <= j

---------------------------------------------------------------------------
(* flv.h: byte writers and headers                                         *)

Write8(w) == << Digit(w, 1) >>
Write24(w) == << Digit(w, 3), Digit(w, 2), Digit(w, 1) >>
Write32(w) == << Digit(w, 4), Digit(w, 3), Digit(w, 2), Digit(w, 1) >>

TAG_TYPE_VIDEO == 9
VCODEC_AVC == 7

\* operator<<(FLVHeader) for fh = {{'F','L','V'}, 1, 0x05, 9}
FLVHeaderBytes == << 70, 76, 86 >> \o << 1 >> \o << 5 >> \o Write32(W32(9))

\* operator<<(FLVTagHeader): type, 24-bit size, 24 + 8 bit timestamp,
\* 24-bit stream id (0)
FLVTagHeaderBytes(size, timestamp) ==
    << TAG_TYPE_VIDEO >> \o Write24(size) \o Write24(timestamp)
        \o << Digit(timestamp, 4) >> \o Write24(W32(0))

\* first byte of the video payload: (key ? 0x10 : 0x20) | codecId
FrameByte(key) == (IF key THEN 16 ELSE 32) + VCODEC_AVC

---------------------------------------------------------------------------
(* Encoders of the on-disk table layouts the accessors above decode; they  *)
(* build the input payloads from lists of runs.                            *)

RECURSIVE Flatten(_)
Flatten(ss) == IF ss = << >> THEN << >> ELSE ss[1] \o Flatten(Tail(ss))

BE32(n) == BigEndian(W32(n))
Zeros(n) == [k \in 1 .. n |-> 0]

\* stsc payload: entry count, then (first_chunk, samples_per_chunk,
\* description index) per run; a run is given as <<first, spc>>
EncSTSC(runs) ==
    BE32(Len(runs)) \o
    Flatten([k \in 1 .. Len(runs) |->
                BE32(runs[k][1]) \o BE32(runs[k][2]) \o BE32(1)])

\* stts / ctts payload: entry count, then (sample_count, value) per run,
\* each field given as a 32-bit word
EncRuns(runs) ==
    BE32(Len(runs)) \o
    Flatten([k \in 1 .. Len(runs) |->
                BigEndian(runs[k][1]) \o BigEndian(runs[k][2])])

\* stco payload: entry count, then one offset per chunk
EncSTCO(offsets) ==
    BE32(Len(offsets)) \o Flatten([k \in 1 .. Len(offsets) |-> BE32(offsets[k])])

\* stsz payload with a per-sample size array (constant size 0)
EncSTSZ(sizes) ==
    BE32(0) \o BE32(Len(sizes)) \o
    Flatten([k \in 1 .. Len(sizes) |-> BE32(sizes[k])])

\* stsz payload of a uniform table: constant size, sample count, no array
EncSTSZUniform(constant, n) == BE32(constant) \o BE32(n)

---------------------------------------------------------------------------
(* State                                                                   *)

VARIABLES
    \* --- the sample-table index functions, called on their own
    query,      \* index query: the table payload and the sample index asked
    result,     \* the value the index function returned, or None
    \* --- Mp4Root::parse and Mp4Root::write on a byte stream
    isBytes,    \* the bytes of the stream `is`
    isPos,      \* its read position
    isFailed,   \* its failbit
    stack,      \* the BoxSimpleList::parse calls in progress, outermost first
    root,       \* children of the parsed Mp4Root
    ppc,        \* position of the parser
    decoded,    \* history: one record per box decoded, with the cursor after
    written,    \* the bytes Mp4Root::write emitted
    \* --- main() of mp4toflv.cpp: the boxes it located in the parsed tree;
    \* --- a box findByType did not find is NoBox (nullptr)
    track,      \* whether the tree has a track box
    tkhd,       \* track header: [version, buf]
    stsc,       \* payload of the chunk-run box
    stco,       \* payload of the chunk-offset box
    stsz,       \* payload of the sample-size box
    stts,       \* payload of the decode-time box
    ctts,       \* payload of the composition-offset box, or NoBox (nullptr)
    mdhd,       \* media header: [version, buf]
    stsd,       \* payload of the sample-description box
    \* --- main(): the streams
    src,        \* bytes of the input file (ifs)
    ifsFail,    \* failbit of ifs
    out,        \* bytes written to the output file (of)
    \* --- main(): locals
    pc,         \* position in main()
    i,          \* loop index (int)
    lastChunk,  \* uint32_t
    offset,     \* uint32_t: byte offset inside the current chunk
    prev,       \* size_t: output position after the last trailer
    chunk,      \* uint32_t: sampleToChunk(i) of the current iteration
    timeOffset, \* uint32_t
    buf,        \* vector<uint8_t>: the sample bytes
    p,          \* uint32_t: scan position of the keyframe check
    rap,        \* bool
    \* --- history, for stating the properties
    seekPos,    \* argument of the last ifs.seekg
    tags        \* one record per tag written: where it starts and what it is

idxVars == << query, result >>

parseVars ==
    << isBytes, isPos, isFailed, stack, root, ppc, decoded, written >>

boxVars == << track, tkhd, stsc, stco, stsz, stts, ctts, mdhd, stsd >>

pipeVars ==
    << src, ifsFail, out, pc, i, lastChunk, offset, prev, chunk, timeOffset,
       buf, p, rap, seekPos, tags >>

vars == << idxVars, parseVars, boxVars, pipeVars >>

\* no value yet (a word is never empty)
None == << >>

---------------------------------------------------------------------------
(* Inputs of the sample-table index functions                              *)

\* largest number of runs in a generated chunk-run table
MaxRuns == 3
\* largest number of chunks one run spans (first_chunk step between runs)
MaxStep == 2
\* largest sample index asked of sampleToChunk
MaxSampleIndex == 9
\* largest sample_count of a generated decode-time run
MaxRunCount == 3

\* samples-per-chunk values of the generated chunk-run tables
SpcValues == {1, 4}

\* chunk-run tables of exactly k runs: ascending first_chunk, starting at 1
RECURSIVE StscRuns(_)
StscRuns(k) ==
    IF k = 1 THEN { << << 1, s >> >> : s \in SpcValues }
    ELSE { Append(t, << t[k - 1][1] + d, s >>) :
             t \in StscRuns(k - 1), d \in 1 .. MaxStep, s \in SpcValues }

StscTables == UNION { StscRuns(k) : k \in 1 .. MaxRuns }

\* sample_delta values: the two of the documented example and 2^32 - 1
DeltaValues == { W32(500), W32(1000), << 255, 255, 255, 255 >> }

SttsRunSet == { << W32(c), d >> : c \in 1 .. MaxRunCount, d \in DeltaValues }

\* decode-time tables of one or two runs
SttsTables ==
    { << r >> : r \in SttsRunSet } \cup
    { << r1, r2 >> : r1 \in SttsRunSet, r2 \in SttsRunSet }

\* the sum of the sample counts of a decode-time payload
RECURSIVE SttsTotal(_, _)
SttsTotal(box, k) ==
    IF k = 0 THEN 0
    ELSE ToInt(BoxSTTS_runCount(box, k - 1)) + SttsTotal(box, k - 1)

Queries ==
    { [fn |-> "sampleToChunk", buf |-> EncSTSC(t), n |-> n] :
        t \in StscTables, n \in 0 .. MaxSampleIndex }
    \cup
    { [fn |-> "sampleToTime", buf |-> EncRuns(t), n |-> n] :
        t \in SttsTables, n \in 0 .. (2 * MaxRunCount - 1) }

\* media and track headers of both versions: payloads after the
\* version/flags word. Version 0: creation, modification, timescale or
\* track id, (reserved,) duration in 32 bits; version 1: the three times in
\* 64 bits. One version-1 header of each kind is dated past 2^32.
MdhdHeaders ==
    { [version |-> 0,
       buf |-> BE32(11) \o BE32(12) \o BE32(1000) \o BE32(4500) \o Zeros(4)],
      [version |-> 0,
       buf |-> << 200, 0, 0, 1 >> \o << 129, 2, 3, 4 >> \o BE32(90000)
                  \o << 255, 255, 255, 255 >> \o Zeros(4)],
      [version |-> 1,
       buf |-> Zeros(4) \o BE32(11) \o Zeros(4) \o BE32(12) \o BE32(1000)
                  \o Zeros(4) \o BE32(4500) \o Zeros(4)],
      [version |-> 1,
       buf |-> BE32(1) \o BE32(11) \o BE32(2) \o BE32(12) \o BE32(1000)
                  \o BE32(3) \o BE32(4500) \o Zeros(4)] }
TkhdHeaders ==
    { [version |-> 0,
       buf |-> BE32(11) \o BE32(12) \o BE32(7) \o Zeros(4) \o BE32(4500)
                  \o Zeros(8)],
      [version |-> 1,
       buf |-> Zeros(4) \o BE32(11) \o Zeros(4) \o BE32(12) \o BE32(7)
                  \o Zeros(4) \o Zeros(4) \o BE32(4500) \o Zeros(8)],
      [version |-> 1,
       buf |-> BE32(1) \o BE32(11) \o BE32(2) \o BE32(12) \o BE32(7)
                  \o Zeros(4) \o BE32(3) \o BE32(4500) \o Zeros(8)] }

MdhdAccessors ==
    { "mdhd.created", "mdhd.modified", "mdhd.timeScale", "mdhd.duration" }
TkhdAccessors ==
    { "tkhd.created", "tkhd.modified", "tkhd.trackId", "tkhd.duration" }

\* calls of the header accessors: n is the box's version
HeaderQueries ==
    { [fn |-> f, buf |-> h.buf, n |-> h.version] :
        f \in MdhdAccessors, h \in MdhdHeaders }
    \cup
    { [fn |-> f, buf |-> h.buf, n |-> h.version] :
        f \in TkhdAccessors, h \in TkhdHeaders }

\* no parse is running
ParseIdle ==
    /\ isBytes = << >> /\ isPos = 0 /\ isFailed = FALSE /\ stack = << >>
    /\ root = << >> /\ ppc = "off" /\ decoded = << >> /\ written = << >>

\* main() is not running
PipeIdle ==
    /\ track = FALSE /\ tkhd = << >>
    /\ stsc = << >> /\ stco = << >> /\ stsz = << >> /\ stts = << >>
    /\ ctts = << >> /\ mdhd = << >> /\ stsd = << >>
    /\ src = << >> /\ ifsFail = FALSE /\ out = << >>
    /\ pc = "off" /\ i = 0 /\ lastChunk = << >> /\ offset = << >>
    /\ prev = 0 /\ chunk = << >> /\ timeOffset = << >> /\ buf = << >>
    /\ p = << >> /\ rap = FALSE /\ seekPos = << >> /\ tags = << >>

IndexInit ==
    /\ ParseIdle
    /\ PipeIdle
    /\ query \in { q \in Queries :
                     q.fn = "sampleToTime" =>
                        q.n < SttsTotal(q.buf, ToInt(BoxSTTS_count(q.buf))) }
                 \cup HeaderQueries
    /\ result = None

CallSampleToChunk ==
    /\ query.fn = "sampleToChunk"
    /\ result = None
    /\ result' = BoxSTSC_sampleToChunk(query.buf, W32(query.n))
    /\ UNCHANGED << query, parseVars, boxVars, pipeVars >>

CallSampleToTime ==
    /\ query.fn = "sampleToTime"
    /\ result = None
    /\ result' = BoxSTTS_sampleToTime(query.buf, W32(query.n))
    /\ UNCHANGED << query, parseVars, boxVars, pipeVars >>

\* one accessor of a media header
CallMdhdAccessor ==
    /\ query.fn \in MdhdAccessors
    /\ result = None
    /\ LET box == [version |-> query.n, buf |-> query.buf]
       IN  result' = CASE query.fn = "mdhd.created" -> BoxMDHD_created(box)
                       [] query.fn = "mdhd.modified" -> BoxMDHD_modified(box)
                       [] query.fn = "mdhd.timeScale" -> BoxMDHD_timeScale(box)
                       [] query.fn = "mdhd.duration" -> BoxMDHD_duration(box)
    /\ UNCHANGED << query, parseVars, boxVars, pipeVars >>

\* one accessor of a track header
CallTkhdAccessor ==
    /\ query.fn \in TkhdAccessors
    /\ result = None
    /\ LET box == [version |-> query.n, buf |-> query.buf]
       IN  result' = CASE query.fn = "tkhd.created" -> BoxTKHD_created(box)
                       [] query.fn = "tkhd.modified" -> BoxTKHD_modified(box)
                       [] query.fn = "tkhd.trackId" -> BoxTKHD_trackId(box)
                       [] query.fn = "tkhd.duration" -> BoxTKHD_duration(box)
    /\ UNCHANGED << query, parseVars, boxVars, pipeVars >>

IndexNext ==
    \/ CallSampleToChunk \/ CallSampleToTime
    \/ CallMdhdAccessor \/ CallTkhdAccessor

SpecIndex == IndexInit /\ [][IndexNext]_vars

---------------------------------------------------------------------------
(* main() of mp4toflv.cpp: inputs                                          *)

\* findByType returned nullptr (a payload always holds its entry count)
NoBox == << >>

\* sample payloads: 4-byte big-endian length, then the NAL unit, whose
\* first byte carries the unit type in its low 5 bits (0x65: type 5, IDR
\* slice; 0x41: type 1, non-IDR slice)
NalIdr1 == << 0, 0, 0, 1, 101 >>
NalIdr2 == << 0, 0, 0, 2, 101, 136 >>
NalP1 == << 0, 0, 0, 1, 65 >>
NalP2 == << 0, 0, 0, 2, 65, 154 >>

\* the six samples of the test track
TrackSamples ==
    << NalIdr2, NalP1, NalP2 \o NalIdr1, NalIdr1, NalP2 \o NalIdr2, NalP2 >>

\* the input file: an 8-byte free box, then the samples back to back
SrcTrack == << 0, 0, 0, 8, 102, 114, 101, 101 >> \o Flatten(TrackSamples)

StszTrack == EncSTSZ([k \in 1 .. Len(TrackSamples) |-> Len(TrackSamples[k])])

\* three runs: chunks 1-2 hold two samples, chunk 3 one, chunks 4.. two
StscThreeRuns == EncSTSC(<< << 1, 2 >>, << 3, 1 >>, << 4, 2 >> >>)
StcoThreeRuns == EncSTCO(<< 8, 19, 35, 47 >>)

\* one run: four samples per chunk
StscOneRun == EncSTSC(<< << 1, 4 >> >>)
StcoOneRun == EncSTCO(<< 8, 35 >>)

\* number of bytes left of the input file when it is cut short
TruncatedLen == 40
\* number of samples of the short sample-size table
ShortCount == 2

TrackFiles ==
    { \* well-formed, three runs
      [stsc |-> StscThreeRuns, stco |-> StcoThreeRuns, stsz |-> StszTrack,
       src |-> SrcTrack],
      \* well-formed, one run
      [stsc |-> StscOneRun, stco |-> StcoOneRun, stsz |-> StszTrack,
       src |-> SrcTrack],
      \* the chunk-offset table lists fewer chunks than the samples need
      [stsc |-> StscThreeRuns, stco |-> EncSTCO(<< 8, 19 >>),
       stsz |-> StszTrack, src |-> SrcTrack],
      \* the file ends before the last samples
      [stsc |-> StscThreeRuns, stco |-> StcoThreeRuns, stsz |-> StszTrack,
       src |-> SubSeq(SrcTrack, 1, TruncatedLen)],
      \* the sample-size table lists only the first samples
      [stsc |-> StscThreeRuns, stco |-> StcoThreeRuns,
       stsz |-> EncSTSZ([k \in 1 .. ShortCount |-> Len(TrackSamples[k])]),
       src |-> SrcTrack] }

\* the documented example: chunk-run {(1,4)}, chunk offsets {100, 500},
\* constant sample size 10
UniformSize == 10
UniformSamples == 6
\* a sample of UniformSize bytes: one unit whose first byte is `first`
UniformSample(first) ==
    << 0, 0, 0, UniformSize - 4, first >> \o [k \in 1 .. UniformSize - 5 |-> k]
\* a chunk of four samples, the first a sync sample
UniformChunk ==
    UniformSample(101) \o UniformSample(65) \o UniformSample(65)
        \o UniformSample(65)
UniformFile ==
    [stsc |-> StscOneRun, stco |-> EncSTCO(<< 100, 500 >>),
     stsz |-> EncSTSZUniform(UniformSize, UniformSamples),
     src |-> Zeros(100) \o UniformChunk \o Zeros(400 - Len(UniformChunk))
                \o UniformChunk]

\* unit lengths that wrap the scan position: length + 4 is 0 modulo 2^32,
\* and position + length + 4 is 2^32 at position 5
LengthMinus4 == << 255, 255, 255, 252 >>
LengthMinus9 == << 255, 255, 255, 247 >>
\* a file of one sample: a one-byte unit, then a unit of the given length
\* field
WrapFile(len) ==
    [stsc |-> StscOneRun, stco |-> EncSTCO(<< 8 >>), stsz |-> EncSTSZ(<< 11 >>),
     src |-> Zeros(8) \o NalP1 \o len \o << 65, 0 >>]

SttsTrack == EncRuns(<< << W32(3), W32(1000) >>, << W32(3), W32(500) >> >>)
SttsOptions ==
    { SttsTrack,
      EncRuns(<< << W32(2), W32(1000) >>,
                 << W32(4), << 255, 255, 255, 255 >> >> >>) }

\* a composition offset of 5000 s at timescale 1000
LargeOffset == 5 * 1000 * 1000

CttsOptions ==
    { NoBox,
      EncRuns(<< << W32(1), W32(0) >>, << W32(2), W32(2000) >>,
                 << W32(3), W32(1000) >> >>),
      \* an offset whose product with 1000 does not fit 32 bits
      EncRuns(<< << W32(1), W32(0) >>, << W32(2), W32(LargeOffset) >>,
                 << W32(3), W32(1000) >> >>) }

\* media header, version 0: creation, modification, timescale 1000,
\* duration, language / quality
MdhdTrack ==
    [version |-> 0,
     buf |-> BE32(0) \o BE32(0) \o BE32(1000) \o BE32(4500) \o Zeros(4)]

\* "avc1", "avcC"
Avc1 == << 97, 118, 99, 49 >>
AvcC == << 97, 118, 99, 67 >>
\* stand-in for the AVC decoder configuration record
AvcConfig == << 1, 100, 0, 31 >>
\* sample description: one avc1 entry whose body embeds an avcC box
StsdTrack ==
    LET body == Zeros(2) \o BE32(8 + Len(AvcConfig)) \o AvcC \o AvcConfig
    IN  BE32(1) \o BE32(8 + Len(body)) \o Avc1 \o body

Scenarios ==
    { [file |-> f, stts |-> t, ctts |-> c] :
        f \in TrackFiles, t \in SttsOptions, c \in CttsOptions }
    \cup { [file |-> f, stts |-> SttsTrack, ctts |-> NoBox] :
             f \in { UniformFile, WrapFile(LengthMinus4),
                     WrapFile(LengthMinus9) } }

\* track header, version 0: creation, modification, track id, reserved,
\* duration, reserved (8), layer .. volume (8), matrix (36), width, height
TkhdTrack ==
    [version |-> 0,
     buf |-> BE32(1) \o BE32(2) \o BE32(1) \o Zeros(4) \o BE32(4500)
               \o Zeros(8) \o Zeros(8) \o Zeros(36)
               \o BE32(640 * 65536) \o BE32(480 * 65536)]

\* the box of the first track that the tree lacks, if any; without a track
\* box every lookup inside the track is made through a null pointer
AbsentOptions ==
    { "none", "trak", "tkhd", "mdhd", "stsd", "stsc", "stco", "stsz", "stts" }

\* what track->findByType returns for the box named `name`
Found(gone, name, box) == IF gone \in { "trak", name } THEN NoBox ELSE box

\* the track the absent-box cases are derived from
CompleteTrack ==
    [file |-> [stsc |-> StscThreeRuns, stco |-> StcoThreeRuns,
               stsz |-> StszTrack, src |-> SrcTrack],
     stts |-> SttsTrack, ctts |-> NoBox]

\* values an out-of-bounds read of a 32-bit field may yield
GarbageWords == { W32(0), W32(10) }
\* values an out-of-bounds read of a byte may yield
GarbageBytes == { 0, 101 }

---------------------------------------------------------------------------
(* main() of mp4toflv.cpp: steps                                           *)

\* the state after `mp4.parse(ifs)` and the findByType calls (lines 11-36)
Init ==
    /\ query = << >> /\ result = None
    /\ ParseIdle
    /\ \E sc \in Scenarios, gone \in AbsentOptions :
          /\ gone # "none" => sc = CompleteTrack
          /\ track = (gone # "trak")
          /\ tkhd = Found(gone, "tkhd", TkhdTrack)
          /\ mdhd = Found(gone, "mdhd", MdhdTrack)
          /\ stsd = Found(gone, "stsd", StsdTrack)
          /\ stsc = Found(gone, "stsc", sc.file.stsc)
          /\ stco = Found(gone, "stco", sc.file.stco)
          /\ stsz = Found(gone, "stsz", sc.file.stsz)
          /\ stts = Found(gone, "stts", sc.stts)
          /\ ctts = sc.ctts
          /\ src = sc.file.src
    /\ ifsFail = TRUE              \* parse() ran into the end of the file
    /\ out = << >>
    /\ pc = "start"
    /\ i = 0
    /\ lastChunk = << 255, 255, 255, 255 >>     \* uint32_t lastChunk = -1
    /\ offset = W32(0)
    /\ prev = 0
    /\ chunk = None /\ timeOffset = None /\ buf = << >> /\ p = None
    /\ rap = FALSE /\ seekPos = None /\ tags = << >>

\* the loop condition with <= for <: one iteration past the last sample
LoopCondInclusive(idx, box) == ~ LtW(BoxSTSZ_count(box), W32(idx))

\* line 67: i < stsz->count() (i is converted to unsigned)
LoopCond(idx, box) == LtW(W32(idx), BoxSTSZ_count(box))

\* lines 20-33 call a member of the track, the track header, the media
\* header, the sample-size box and the sample-description box, in that
\* order, without testing the pointer
NullBeforeOutput ==
    ~ track \/ tkhd = NoBox \/ mdhd = NoBox \/ stsz = NoBox \/ stsd = NoBox

\* lines 71-79 do the same with the chunk-run, chunk-offset and decode-time
\* boxes
NullInLoop == stsc = NoBox \/ stco = NoBox \/ stts = NoBox

\* a member called through a null pointer reads the object's fields from
\* the unmapped first page: the process is killed (SIGSEGV) at that line
NullDereference ==
    /\ \/ pc = "start" /\ NullBeforeOutput
       \/ pc = "loop" /\ LoopCond(i, stsz) /\ NullInLoop
    /\ pc' = "segv"
    /\ UNCHANGED << idxVars, parseVars, boxVars, src, ifsFail, out, i, lastChunk,
                    offset, prev, chunk, timeOffset, buf, p, rap, seekPos,
                    tags >>

\* lines 38-43: the FLV file header and the first PreviousTagSize (0)
WriteHeader ==
    /\ pc = "start"
    /\ ~ NullBeforeOutput
    /\ out' = out \o FLVHeaderBytes \o Write32(W32(0))
    /\ pc' = "config"
    /\ UNCHANGED << idxVars, parseVars, boxVars, src, ifsFail, i, lastChunk, offset,
                    prev, chunk, timeOffset, buf, p, rap, seekPos, tags >>

\* (uint32_t)of.tellp() - prev, as write32 receives it
TrailerValue(tellp, last) == W32(tellp - last)

\* lines 45-66: the sequence-header tag and its trailer; ifs.clear()
EmitCodecConfig ==
    /\ pc = "config"
    /\ LET desc == BoxSTSD_desc(stsd)
           at   == StringFind(desc, AvcC)
       IN  IF at + 4 > Len(desc)
           THEN \* desc.substr throws std::out_of_range
                /\ pc' = "abort"
                /\ UNCHANGED << out, prev, tags, ifsFail >>
           ELSE LET config == SubSeq(desc, at + 4 + 1, Len(desc))
                    tag == FLVTagHeaderBytes(W32(Len(config) + 5), W32(0))
                             \o << FrameByte(TRUE) >> \o << 0 >>
                             \o Write24(W32(0)) \o config
                    end == Len(out) + Len(tag)
                IN  /\ out' = out \o tag \o Write32(TrailerValue(end, prev))
                    /\ prev' = end + 4
                    /\ tags' = Append(tags,
                                      [start |-> Len(out), len |-> Len(tag),
                                       sample |-> -1])
                    /\ ifsFail' = FALSE
                    /\ pc' = "loop"
    /\ UNCHANGED << idxVars, parseVars, boxVars, src, i, lastChunk, offset, chunk,
                    timeOffset, buf, p, rap, seekPos >>

\* vector::resize: keeps the old elements, zero-fills new ones
Resize(v, n) == [k \in 1 .. n |-> IF k <= Len(v) THEN v[k] ELSE 0]

\* ifs.seekg(pos); ifs.read(&v[0], v.size()): with failbit set both do
\* nothing; otherwise the bytes available at pos are copied and a short
\* read sets failbit
SeekRead(file, failed, pos, v) ==
    IF failed THEN [buf |-> v, fail |-> TRUE]
    ELSE LET start == IF Small(pos) /\ ToInt(pos) < Len(file)
                      THEN ToInt(pos) ELSE Len(file)
             avail == Len(file) - start
             got   == IF avail < Len(v) THEN avail ELSE Len(v)
         IN  [buf  |-> [k \in 1 .. Len(v) |->
                          IF k <= got THEN file[start + k] ELSE v[k]],
              fail |-> got < Len(v)]

\* lines 71-90: locate sample i, read it, advance the in-chunk offset
ReadSample ==
    /\ pc = "loop"
    /\ LoopCond(i, stsz)
    /\ ~ NullInLoop
    /\ LET ch  == BoxSTSC_sampleToChunk(stsc, W32(i))
           ofs == IF lastChunk # ch THEN W32(0) ELSE offset
       IN  /\ chunk' = ch
           /\ lastChunk' = ch
           /\ timeOffset' = IF ctts # NoBox
                            THEN BoxCTTS_sampleToOffset(ctts, W32(i))
                            ELSE W32(0)
           /\ \E g1 \in GarbageWords, g2 \in GarbageWords :
                 LET size1 == BoxSTSZ_size(stsz, i, g1)       \* line 86
                     pos   == AddW(BoxSTCO_offset(stco, ch, g2), ofs, 4)
                     rd    == SeekRead(src, ifsFail, pos,
                                       Resize(buf, ToInt(size1)))
                 IN  /\ Small(size1)
                     /\ seekPos' = pos
                     /\ buf' = rd.buf
                     /\ ifsFail' = rd.fail
           /\ \E g3 \in GarbageWords :
                 offset' = AddW(ofs, BoxSTSZ_size(stsz, i, g3), 4) \* line 90
    /\ p' = W32(0)
    /\ rap' = FALSE
    /\ pc' = "scan"
    /\ UNCHANGED << idxVars, parseVars, boxVars, src, out, i, prev, tags >>

\* line 95: p + 5 < buf.size(); p + 5 is formed in 32 bits
ScanCond(pos, v) == LtW(AddW(pos, W32(5), 4), W64(Len(v)))

\* line 96: the length field at pos; g is what an out-of-bounds read finds
UnitLength(pos, v, g) ==
    IF Small(pos) /\ ToInt(pos) + 5 <= Len(v)
    THEN ui32(v, ToInt(pos))
    ELSE g
\* line 99: p += sz + 4
ScanAdvance(pos, sz) == AddW(pos, AddW(sz, W32(4), 4), 4)

\* lines 95-100: one iteration of the keyframe scan
ScanNal ==
    /\ pc = "scan"
    /\ ScanCond(p, buf)
    /\ \E g \in GarbageWords, gb \in GarbageBytes :
          LET inside == Small(p) /\ ToInt(p) + 5 <= Len(buf)
              nal == IF inside THEN buf[ToInt(p) + 5] ELSE gb
          IN  /\ rap' = (rap \/ (nal % 32 = 5))
              /\ p' = ScanAdvance(p, UnitLength(p, buf, g))
    /\ UNCHANGED << idxVars, parseVars, boxVars, src, ifsFail, out, pc, i, lastChunk,
                    offset, prev, chunk, timeOffset, buf, seekPos, tags >>

\* line 104: sampleToTime(i) * 1000 / timeScale in 64 bits, stored in the
\* uint32_t th.timestamp
TagTimestamp(time, scale) ==
    Cast(DivW(MulW(time, W64(1000), 8), Cast(scale, 8), 8), 4)

\* line 110: timeOffset * 1000 / timeScale in 32 bits
TagTimeOffset(ofs, scale) == DivW(MulW(ofs, W32(1000), 4), scale, 4)

\* lines 104-115 and the i++ of line 67: the sample's tag and its trailer
WriteTag ==
    /\ pc = "scan"
    /\ ~ ScanCond(p, buf)
    /\ LET scale == BoxMDHD_timeScale(mdhd)
       IN  IF scale = W32(0)
           THEN \* integer division by zero
                /\ pc' = "abort"
                /\ UNCHANGED << out, prev, tags, i >>
           ELSE LET ts  == TagTimestamp(BoxSTTS_sampleToTime(stts, W32(i)),
                                        scale)
                    tag == FLVTagHeaderBytes(W32(Len(buf) + 2 + 3), ts)
                             \o << FrameByte(rap) >> \o << 1 >>
                             \o Write24(TagTimeOffset(timeOffset, scale))
                             \o buf
                    end == Len(out) + Len(tag)
                IN  /\ out' = out \o tag \o Write32(TrailerValue(end, prev))
                    /\ prev' = end + 4
                    /\ tags' = Append(tags,
                                      [start |-> Len(out), len |-> Len(tag),
                                       sample |-> i])
                    /\ i' = i + 1
                    /\ pc' = "loop"
    /\ UNCHANGED << idxVars, parseVars, boxVars, src, ifsFail, lastChunk, offset, chunk,
                    timeOffset, buf, p, rap, seekPos >>

\* line 118: the loop is over, return 0
Finish ==
    /\ pc = "loop"
    /\ ~ LoopCond(i, stsz)
    /\ pc' = "done"
    /\ UNCHANGED << idxVars, parseVars, boxVars, src, ifsFail, out, i, lastChunk, offset,
                    prev, chunk, timeOffset, buf, p, rap, seekPos, tags >>

Next ==
    \/ NullDereference
    \/ WriteHeader
    \/ EmitCodecConfig
    \/ ReadSample
    \/ ScanNal
    \/ WriteTag
    \/ Finish

Spec == Init /\ [][Next]_vars

---------------------------------------------------------------------------
(* Mp4Root::parse / Mp4Root::write: box types and input streams            *)

BOX_FTYP == << 102, 116, 121, 112 >>
BOX_FREE == << 102, 114, 101, 101 >>
BOX_MOOV == << 109, 111, 111, 118 >>
BOX_MVHD == << 109, 118, 104, 100 >>
BOX_MDIA == << 109, 100, 105, 97 >>
BOX_MDHD == << 109, 100, 104, 100 >>
BOX_MINF == << 109, 105, 110, 102 >>
BOX_MDAT == << 109, 100, 97, 116 >>
BOX_HDLR == << 104, 100, 108, 114 >>
BOX_STCO == << 115, 116, 99, 111 >>
BOX_STSC == << 115, 116, 115, 99 >>
BOX_STSD == << 115, 116, 115, 100 >>
BOX_STTS == << 115, 116, 116, 115 >>
BOX_STSZ == << 115, 116, 115, 122 >>
BOX_STSS == << 115, 116, 115, 115 >>
BOX_STBL == << 115, 116, 98, 108 >>
BOX_CTTS == << 99, 116, 116, 115 >>
BOX_TRAK == << 116, 114, 97, 107 >>
BOX_TKHD == << 116, 107, 104, 100 >>
BOX_DTS == << 100, 116, 115, 0 >>
BOX_UDTA == << 117, 100, 116, 97 >>

has_child(type) ==
    type \in { BOX_MOOV, BOX_TRAK, BOX_DTS, BOX_MDIA, BOX_MINF, BOX_STBL,
               BOX_UDTA }

\* the leaf types createBox decodes with a FullBufBox subclass
FullBufTypes ==
    { BOX_MDHD, BOX_TKHD, BOX_HDLR, BOX_STSC, BOX_STSD, BOX_STSS, BOX_STSZ,
      BOX_STCO, BOX_STTS, BOX_CTTS }

\* createBox: boxes above this size are skipped, not loaded
LargeBoxSize == 1024 * 1024 * 10

\* the class createBox instantiates for a header, in the order it tests
BoxKind(type, sz) ==
    IF type = BOX_FTYP THEN "ftyp"
    ELSE IF type = BOX_FREE THEN "free"
    ELSE IF type = BOX_MVHD THEN "mvhd"
    ELSE IF type \in FullBufTypes THEN "fullbuf"
    ELSE IF has_child(type) THEN "list"
    ELSE IF sz > LargeBoxSize THEN "ref"
    ELSE "unknown"

\* Mp4Root() : BoxSimpleList("ROOT", 0x7fffffff)
RootSize == 2147483647

\* a box on disk: 32-bit size, type, payload
MkBox(type, payload) == BE32(8 + Len(payload)) \o type \o payload

Isom == << 105, 115, 111, 109 >>
Wide == << 119, 105, 100, 101 >>
Skip == << 115, 107, 105, 112 >>

FtypBox == MkBox(BOX_FTYP, Isom \o BE32(512) \o Avc1)
FreeBox == MkBox(BOX_FREE, << 1, 2, 3 >>)
WideBox == MkBox(Wide, << >>)
\* movie header, version 0: creation, modification, timescale, duration,
\* rate, volume, and two further bytes
Mvhd0Box ==
    MkBox(BOX_MVHD, << 0, 0, 0, 0 >> \o BE32(1) \o BE32(2) \o BE32(1000)
                       \o BE32(5000) \o BE32(65536) \o BE32(16777216)
                       \o << 7, 7 >>)
\* movie header, version 1: 64-bit creation, modification and duration
Mvhd1Box ==
    MkBox(BOX_MVHD, << 1, 0, 0, 0 >> \o Zeros(4) \o BE32(1) \o Zeros(4)
                       \o BE32(2) \o BE32(1000) \o Zeros(4) \o BE32(5000)
                       \o BE32(65536))
\* movie header, version 1, whose bytes after the version/flags word read
\* as the header of a 20-byte box that ends where the movie header ends
Mvhd1Tiled ==
    MkBox(BOX_MVHD, << 1, 0, 0, 0 >> \o BE32(20) \o Skip \o Zeros(12))
TkhdBox == MkBox(BOX_TKHD, << 0, 0, 0, 1 >> \o << 9, 9 >>)
TrakBox == MkBox(BOX_TRAK, TkhdBox)
MoovBox == MkBox(BOX_MOOV, Mvhd0Box \o TrakBox)
MoovMvhd1 == MkBox(BOX_MOOV, Mvhd1Tiled)
\* a media-data box declared larger than LargeBoxSize, cut short
MdatLarge == BE32(LargeBoxSize + 8) \o BOX_MDAT \o << 1, 2, 3, 4 >>

BoxPool ==
    { FtypBox, FreeBox, WideBox, MoovBox, Mvhd1Box, MoovMvhd1, MdatLarge }

MaxTopBoxes == 2

\* a stream cut inside the fields of the movie header of MoovBox
CutLen == 46

\* a box of an unrecognised type that declares fewer bytes than its header
WideShort == BE32(4) \o Wide
\* a box of an unrecognised type that declares exactly LargeBoxSize bytes,
\* cut short
WideAtLimit == BE32(LargeBoxSize) \o Wide \o << 1, 2, 3, 4 >>

\* the streams parsed: up to MaxTopBoxes boxes of the pool one after the
\* other, one stream that ends inside a box, and the two boxes above after
\* a file-type box
ParseStreams ==
    { Flatten(s) : s \in UNION { [1 .. k -> BoxPool] : k \in 1 .. MaxTopBoxes } }
    \cup { SubSeq(FtypBox \o MoovBox, 1, CutLen), FtypBox \o WideShort,
           FtypBox \o WideAtLimit }

---------------------------------------------------------------------------
(* Mp4Root::parse / Mp4Root::write: steps                                  *)
(*                                                                         *)
(* Sizes and stream positions are integers: every size in ParseStreams is  *)
(* below 2^31, and every box is at least as long as the fixed part its     *)
(* class reads, except where ThrowLengthError says otherwise.              *)

\* a decoded box; the fields a class does not have are empty
Node(kind, type, size, start, version, flags, major, words, body, kids) ==
    [kind |-> kind, type |-> type, size |-> size, start |-> start,
     version |-> version, flags |-> flags, major |-> major, words |-> words,
     body |-> body, children |-> kids]

\* std::istream::read of len bytes at position at succeeds
Avail(at, len) == at + len <= Len(isBytes)

\* a vector of len zero bytes after is.read(&v[0], len) at position at: the
\* bytes the stream still has, then the zeros the resize left
VecRead(at, len) ==
    [k \in 1 .. len |-> IF at + k <= Len(isBytes) THEN isBytes[at + k] ELSE 0]

\* read32 at position at; g is what the local buffer held if the read failed
Read32At(at, g) == IF Avail(at, 4) THEN ui32(isBytes, at) ELSE g
\* read24
Read24At(at, g) ==
    IF Avail(at, 3)
    THEN << isBytes[at + 3], isBytes[at + 2], isBytes[at + 1], 0 >>
    ELSE g
\* read8
Read8At(at, g) == IF Avail(at, 1) THEN isBytes[at + 1] ELSE g
\* is.read(raw, 4) into an uninitialised array
Raw4At(at, g) == IF Avail(at, 4) THEN SubSeq(isBytes, at + 1, at + 4) ELSE g

\* position and failbit after reading up to position upto
ReadTo(upto) ==
    [pos |-> IF upto <= Len(isBytes) THEN upto ELSE Len(isBytes),
     fail |-> upto > Len(isBytes)]

\* the BoxSimpleList::parse call whose loop is running
Top == stack[Len(stack)]

\* while (is.tellg() < pos): tellg() of a failed stream is -1, which the
\* comparison with the unsigned pos turns into the largest value
ListLoopCond == ~isFailed /\ isPos < Top.end

\* the 8 header bytes cannot be read: is.eof() after the two reads
HeaderEof == ~Avail(isPos, 8)
HeaderSize == ToInt(ui32(isBytes, isPos))
HeaderType == SubSeq(isBytes, isPos + 5, isPos + 8)

\* the loop body reads a header and createBox picks the class kind
Dispatch(kind) ==
    /\ ppc = "parse" /\ ListLoopCond /\ ~HeaderEof
    /\ BoxKind(HeaderType, HeaderSize) = kind

\* children.push_back(createBox(...)) of a leaf that left the stream at
\* position after
PushLeaf(node, after, fail) ==
    /\ stack' = [stack EXCEPT ![Len(stack)].children = Append(@, node)]
    /\ isPos' = after /\ isFailed' = fail
    /\ decoded' = Append(decoded, [start |-> node.start, size |-> node.size,
                                   kind |-> node.kind, after |-> after,
                                   failed |-> fail])
    /\ UNCHANGED << isBytes, root, ppc, written, idxVars, boxVars, pipeVars >>

ParseInit ==
    /\ query = << >> /\ result = None
    /\ PipeIdle
    /\ isBytes \in ParseStreams
    /\ isPos = 0 /\ isFailed = FALSE
    /\ stack = << [type |-> "ROOT", size |-> RootSize, start |-> 0,
                   end |-> RootSize - 8, children |-> << >>] >>
    /\ root = << >> /\ ppc = "parse" /\ decoded = << >> /\ written = << >>

\* BoxFTYP::parse
ParseFTYP ==
    /\ Dispatch("ftyp") /\ HeaderSize >= 16
    /\ \E g \in GarbageWords :
          LET sz == HeaderSize
              at == isPos + 8
              n == (sz - 16) \div 4
              rd == ReadTo(at + 8 + 4 * n)
              node == Node("ftyp", HeaderType, sz, isPos, 0, W32(0),
                           Raw4At(at, g), << Read32At(at + 4, g) >>,
                           Flatten([k \in 1 .. n |-> Raw4At(at + 4 + 4 * k, g)]),
                           << >>)
          IN  PushLeaf(node, IF rd.fail THEN rd.pos ELSE at + sz - 8, rd.fail)

\* BoxFREE::parse
ParseFREE ==
    /\ Dispatch("free") /\ HeaderSize >= 8
    /\ LET sz == HeaderSize
           at == isPos + 8
           rd == ReadTo(at + sz - 8)
           node == Node("free", HeaderType, sz, isPos, 0, W32(0), << >>, << >>,
                        VecRead(at, sz - 8), << >>)
       IN  PushLeaf(node, rd.pos, rd.fail)

\* BoxMVHD::parse
ParseMVHD ==
    /\ Dispatch("mvhd")
    /\ \E g \in GarbageWords, gb \in GarbageBytes :
          LET sz == HeaderSize
              at == isPos + 8
              version == Read8At(at, gb)
              flags == Read24At(at + 1, g)
          IN  IF version # 0
              THEN \* return: the six fields keep what the allocation held
                   LET rd == ReadTo(at + 4)
                       node == Node("mvhd", HeaderType, sz, isPos, version,
                                    flags, << >>,
                                    << g, g, g, Cast(g, 8), g, g >>, << >>,
                                    << >>)
                   IN  PushLeaf(node, rd.pos, rd.fail)
              ELSE /\ sz >= 36
                   /\ LET rd == ReadTo(at + sz - 8)
                          node == Node("mvhd", HeaderType, sz, isPos, version,
                                       flags, << >>,
                                       << Read32At(at + 4, g),
                                          Read32At(at + 8, g),
                                          Read32At(at + 12, g),
                                          Cast(Read32At(at + 16, g), 8),
                                          Read32At(at + 20, g),
                                          Read32At(at + 24, g) >>,
                                       VecRead(at + 28, sz - 36), << >>)
                      IN  PushLeaf(node, rd.pos, rd.fail)

\* FullBufBox::parse
ParseFullBuf ==
    /\ Dispatch("fullbuf") /\ HeaderSize >= 12
    /\ \E g \in GarbageWords, gb \in GarbageBytes :
          LET sz == HeaderSize
              at == isPos + 8
              rd == ReadTo(at + sz - 8)
              node == Node("fullbuf", HeaderType, sz, isPos, Read8At(at, gb),
                           Read24At(at + 1, g), << >>, << >>,
                           VecRead(at + 4, sz - 12), << >>)
          IN  PushLeaf(node, rd.pos, rd.fail)

\* UnknownBoxRef::parse
ParseUnknownRef ==
    /\ Dispatch("ref")
    /\ LET sz == HeaderSize
           at == isPos + 8
           node == Node("ref", HeaderType, sz, isPos, 0, W32(0), << >>,
                        << W64(at) >>, << >>, << >>)
       IN  PushLeaf(node, at + sz - 8, FALSE)

\* UnknownBox::parse
ParseUnknown ==
    /\ Dispatch("unknown") /\ HeaderSize >= 8
    /\ LET sz == HeaderSize
           at == isPos + 8
           rd == ReadTo(at + sz - 8)
           node == Node("unknown", HeaderType, sz, isPos, 0, W32(0), << >>,
                        << >>, VecRead(at, sz - 8), << >>)
       IN  PushLeaf(node, rd.pos, rd.fail)

\* std::vector::resize with a length that wrapped below zero throws
\* std::length_error, which nothing catches: a FREE or unknown box shorter
\* than 8 bytes, a FullBufBox shorter than 12, a version 0 movie header
\* shorter than 36
ThrowLengthError ==
    /\ ppc = "parse" /\ ListLoopCond /\ ~HeaderEof
    /\ LET kind == BoxKind(HeaderType, HeaderSize)
       IN  \/ kind \in { "free", "unknown" } /\ HeaderSize < 8
           \/ kind = "fullbuf" /\ HeaderSize < 12
           \/ /\ kind = "mvhd" /\ HeaderSize < 36
              /\ Avail(isPos + 8, 1) /\ isBytes[isPos + 9] = 0
    /\ ppc' = "abort"
    /\ UNCHANGED << isBytes, isPos, isFailed, stack, root, decoded, written,
                    idxVars, boxVars, pipeVars >>

\* createBox on a container type: BoxSimpleList::parse up to its loop
OpenList ==
    /\ Dispatch("list") /\ HeaderSize >= 8
    /\ stack' = Append(stack, [type |-> HeaderType, size |-> HeaderSize,
                               start |-> isPos,
                               end |-> isPos + 8 + HeaderSize - 8,
                               children |-> << >>])
    /\ isPos' = isPos + 8
    /\ UNCHANGED << isBytes, isFailed, root, ppc, decoded, written, idxVars,
                    boxVars, pipeVars >>

\* the loop of the running BoxSimpleList::parse ends: its condition is false
\* or the header read hit the end of the stream
ListLoopEnds == ppc = "parse" /\ (~ListLoopCond \/ HeaderEof)
\* failbit after the loop
FailedAfterLoop == isFailed \/ (ListLoopCond /\ HeaderEof)
\* position after the loop and is.seekg(pos), which a failed stream ignores
PosAfterList ==
    IF ~FailedAfterLoop THEN Top.end
    ELSE IF isFailed \/ isPos > Len(isBytes) THEN isPos
    ELSE Len(isBytes)

\* a nested BoxSimpleList::parse returns and its box joins the parent's
\* children
CloseList ==
    /\ ListLoopEnds /\ Len(stack) > 1
    /\ LET node == Node("list", Top.type, Top.size, Top.start, 0, W32(0),
                        << >>, << >>, << >>, Top.children)
           up == Len(stack) - 1
       IN  /\ stack' = [SubSeq(stack, 1, up) EXCEPT
                            ![up].children = Append(@, node)]
           /\ decoded' = Append(decoded,
                                [start |-> Top.start, size |-> Top.size,
                                 kind |-> "list", after |-> PosAfterList,
                                 failed |-> FailedAfterLoop])
    /\ isPos' = PosAfterList /\ isFailed' = FailedAfterLoop
    /\ UNCHANGED << isBytes, root, ppc, written, idxVars, boxVars, pipeVars >>

\* Mp4Root::parse returns
FinishParse ==
    /\ ListLoopEnds /\ Len(stack) = 1
    /\ root' = Top.children /\ stack' = << >> /\ ppc' = "parsed"
    /\ isPos' = PosAfterList /\ isFailed' = FailedAfterLoop
    /\ UNCHANGED << isBytes, decoded, written, idxVars, boxVars, pipeVars >>

\* Box::write: size and type (the children follow, in BoxWrite)
BoxHeaderBytes(node) == Write32(W32(node.size)) \o node.type
\* FullBox::write
FullBoxBytes(node) ==
    BoxHeaderBytes(node) \o Write8(<< node.version >>) \o Write24(node.flags)

\* the write() of each class
RECURSIVE BoxWrite(_)
BoxWrite(node) ==
    CASE node.kind = "ftyp" ->
            BoxHeaderBytes(node) \o node.major \o Write32(node.words[1])
                \o node.body
      [] node.kind \in { "free", "unknown" } ->
            BoxHeaderBytes(node) \o
                (IF node.size > 8 THEN SubSeq(node.body, 1, node.size - 8)
                 ELSE << >>)
      [] node.kind = "mvhd" ->
            FullBoxBytes(node)
                \o Flatten([k \in 1 .. 6 |-> Write32(node.words[k])])
                \o node.body
      [] node.kind = "fullbuf" ->
            FullBoxBytes(node) \o
                (IF node.size > 8 THEN SubSeq(node.body, 1, node.size - 12)
                 ELSE << >>)
      [] node.kind = "ref" -> << >>
      [] node.kind = "list" ->
            BoxHeaderBytes(node) \o
                Flatten([k \in 1 .. Len(node.children) |->
                            BoxWrite(node.children[k])])

\* Mp4Root::write
WriteTree ==
    /\ ppc = "parsed"
    /\ written' = Flatten([k \in 1 .. Len(root) |-> BoxWrite(root[k])])
    /\ ppc' = "written"
    /\ UNCHANGED << isBytes, isPos, isFailed, stack, root, decoded, idxVars,
                    boxVars, pipeVars >>

ParseNext ==
    \/ ParseFTYP
    \/ ParseFREE
    \/ ParseMVHD
    \/ ParseFullBuf
    \/ ParseUnknownRef
    \/ ParseUnknown
    \/ ThrowLengthError
    \/ OpenList
    \/ CloseList
    \/ FinishParse
    \/ WriteTree

SpecParse == ParseInit /\ [][ParseNext]_vars

---------------------------------------------------------------------------
(* Properties of the sample-table index functions (under SpecIndex)        *)

\* the runs of a chunk-run payload as pairs of integers <<first, spc>>
StscRunsOf(box) ==
    [k \in 1 .. ToInt(BoxSTSC_count(box)) |->
        << ToInt(BoxSTSC_first(box, k - 1)), ToInt(BoxSTSC_spc(box, k - 1)) >>]

\* run-length semantics: the samples-per-chunk of 1-based chunk number c is
\* that of the last run starting at or before c (the last run is open-ended)
SpcOfChunk(runs, c) ==
    LET k == CHOOSE j \in 1 .. Len(runs) :
                 /\ runs[j][1] <= c
                 /\ (j = Len(runs) \/ runs[j + 1][1] > c)
    IN  runs[k][2]

\* number of samples held by the chunks with 0-based index below c
RECURSIVE SamplesBefore(_, _)
SamplesBefore(runs, c) ==
    IF c = 0 THEN 0 ELSE SamplesBefore(runs, c - 1) + SpcOfChunk(runs, c)

\* 0-based chunk c holds 0-based sample n
ChunkHolds(runs, c, n) ==
    SamplesBefore(runs, c) <= n /\ n < SamplesBefore(runs, c + 1)

\* C3: for a chunk-run table with strictly ascending first-chunk values
\* starting at 1 and samples-per-chunk >= 1, sampleToChunk(n) is the 0-based
\* index of the chunk that holds sample n under run-length semantics, also
\* when two or more runs precede the sample.
C3_SampleToChunkRunLength ==
    (query.fn = "sampleToChunk" /\ result # None) =>
        \E c \in 0 .. query.n :
            /\ ChunkHolds(StscRunsOf(query.buf), c, query.n)
            /\ result = W32(c)

\* C3 witness: a three-run table, a sample of the third run, answered
C3_Witness ==
    /\ query.fn = "sampleToChunk"
    /\ result # None
    /\ Len(StscRunsOf(query.buf)) = 3
    /\ query.n >= SamplesBefore(StscRunsOf(query.buf),
                                StscRunsOf(query.buf)[3][1] - 1)

\* the runs of a decode-time payload as pairs of words <<count, delta>>
SttsRunsOf(box) ==
    [k \in 1 .. ToInt(BoxSTTS_count(box)) |->
        << BoxSTTS_runCount(box, k - 1), BoxSTTS_delta(box, k - 1) >>]

\* exact 64-bit sum of count_k * delta_k over the runs 1 .. r
RECURSIVE RunsDuration(_, _)
RunsDuration(runs, r) ==
    IF r = 0 THEN W64(0)
    ELSE AddW(RunsDuration(runs, r - 1), MulW(runs[r][1], runs[r][2], 8), 8)

\* number of samples of the runs 1 .. r
RECURSIVE RunsSamples(_, _)
RunsSamples(runs, r) ==
    IF r = 0 THEN 0 ELSE RunsSamples(runs, r - 1) + ToInt(runs[r][1])

\* the decode time of sample n: the full products, in 64 bits
ExactTime(runs, n) ==
    LET r == CHOOSE j \in 1 .. Len(runs) :
                 RunsSamples(runs, j - 1) <= n /\ n < RunsSamples(runs, j)
    IN  AddW(RunsDuration(runs, r - 1),
             MulW(W32(n - RunsSamples(runs, r - 1)), runs[r][2], 8),
             8)

\* C5: for 32-bit run fields and n below the sum of the run counts,
\* sampleToTime(n) is the 64-bit sum of count_i * delta_i over the runs
\* fully preceding n plus (n - samples consumed) * delta of the run of n.
C5_SampleToTimeExact64 ==
    (query.fn = "sampleToTime" /\ result # None) =>
        result = ExactTime(SttsRunsOf(query.buf), query.n)

---------------------------------------------------------------------------
(* Properties of the remux pipeline (under Spec)                           *)

\* the sample count the sample-size table declares
SampleCount == ToInt(BoxSTSZ_count(stsz))

\* the bytes of `out` at 0-based offsets from .. from + n - 1
OutBytes(from, n) == SubSeq(out, from + 1, from + n)

\* C1: every emitted video tag, the sequence-header tag included, is
\* immediately followed by a 4-byte big-endian trailer equal to that tag's
\* own byte length (11-byte header + payload), whatever was written before.
C1_TrailerIsOwnTagLength ==
    \A k \in 1 .. Len(tags) :
        OutBytes(tags[k].start + tags[k].len, 4) = BE32(tags[k].len)

\* the same for the sample tags alone
TrailerOfSampleTags ==
    \A k \in 2 .. Len(tags) :
        OutBytes(tags[k].start + tags[k].len, 4) = BE32(tags[k].len)

\* AVC packet type and timestamp of a written tag, read back from `out`
TagPacketType(t) == out[t.start + 13]
TagTimestampBytes(t) == OutBytes(t.start + 4, 4)

\* C2: a run that reaches Done has written exactly N + 1 video tags: first
\* the sequence-header tag (packet type 0, timestamp 0), then one sample tag
\* (packet type 1) per sample index 0 .. N-1, in increasing order, none
\* skipped or repeated.
C2_TagsInSampleOrder ==
    pc = "done" =>
        /\ Len(tags) = SampleCount + 1
        /\ tags[1].sample = -1
        /\ TagPacketType(tags[1]) = 0
        /\ TagTimestampBytes(tags[1]) = << 0, 0, 0, 0 >>
        /\ \A k \in 2 .. Len(tags) :
              /\ tags[k].sample = k - 2
              /\ TagPacketType(tags[k]) = 1

\* C2 witness: the six-sample track has been converted
C2_Witness == pc = "done" /\ SampleCount = 6 /\ Len(tags) = 7

\* the chunk-offset table has an entry for chunk index c
ChunkPresent(c) == LtW(c, BoxSTCO_count(stco))

\* C4: over [0, sampleCount) sampleToChunk is non-decreasing, and every
\* chunk index the pipeline looks up is below the chunk-offset table's
\* entry count.
C4_ChunkMonotoneAndPresent ==
    /\ (pc # "off" /\ stsc # NoBox /\ stsz # NoBox) =>
          \A n \in 0 .. (SampleCount - 2) :
              ~ LtW(BoxSTSC_sampleToChunk(stsc, W32(n + 1)),
                    BoxSTSC_sampleToChunk(stsc, W32(n)))
    /\ pc = "scan" => ChunkPresent(chunk)

\* the sample-size table's value for sample m: its constant size if the
\* table is uniform, its array entry otherwise
TableSize(m) ==
    IF BoxSTSZ_constantSize(stsz) # W32(0)
    THEN ToInt(BoxSTSZ_constantSize(stsz))
    ELSE ToInt(ui32(stsz, 8 + m * 4))

\* sum of the table sizes of the samples m .. n-1 that lie in n's chunk
RECURSIVE SameChunkBytes(_, _)
SameChunkBytes(m, n) ==
    IF m >= n THEN 0
    ELSE (IF BoxSTSC_sampleToChunk(stsc, W32(m))
               = BoxSTSC_sampleToChunk(stsc, W32(n))
          THEN TableSize(m) ELSE 0)
         + SameChunkBytes(m + 1, n)

\* the chunk-offset table's entry for chunk index c
ChunkOffset(c) == ToInt(ui32(stco, 4 + ToInt(c) * 4))

\* C6: when sample i is read, the seek offset is chunkOffset(sampleToChunk(i))
\* plus the sizes of the earlier samples of the same chunk, and the running
\* in-chunk offset has then grown by the size of sample i.
C6_SeekOffsetIsChunkPlusPreceding ==
    (pc = "scan" /\ ChunkPresent(chunk)) =>
        /\ chunk = BoxSTSC_sampleToChunk(stsc, W32(i))
        /\ seekPos = W32(ChunkOffset(chunk) + SameChunkBytes(0, i))
        /\ offset = W32(SameChunkBytes(0, i) + TableSize(i))

\* the same for the tables that carry a per-sample size array
SeekOffsetWithSizeArray ==
    (pc = "scan" /\ ChunkPresent(chunk)
        /\ BoxSTSZ_constantSize(stsz) = W32(0)) =>
        /\ chunk = BoxSTSC_sampleToChunk(stsc, W32(i))
        /\ seekPos = W32(ChunkOffset(chunk) + SameChunkBytes(0, i))
        /\ offset = W32(SameChunkBytes(0, i) + TableSize(i))

\* C7: with a uniform sample-size table the length read for every sample,
\* and the advance of the in-chunk offset, is the constant size; in the
\* documented example sample 5 is read at offset 510 with length 10.
C7_UniformSizeIsUsed ==
    (pc = "scan" /\ BoxSTSZ_constantSize(stsz) # W32(0)) =>
        /\ Len(buf) = ToInt(BoxSTSZ_constantSize(stsz))
        /\ offset = AddW(SubW(seekPos, W32(ChunkOffset(chunk)), 4),
                         BoxSTSZ_constantSize(stsz), 4)
        /\ i = 5 => (seekPos = W32(510) /\ Len(buf) = 10)

\* the scan as specified: a unit is examined whenever at least 5 bytes
\* remain at its start; the result is whether an examined unit has type 5
RECURSIVE SyncScan(_, _)
SyncScan(v, at) ==
    IF Len(v) - at < 5 THEN FALSE
    ELSE LET len == << v[at + 4], v[at + 3], v[at + 2], v[at + 1] >>
         IN  \/ v[at + 5] % 32 = 5
             \/ (Small(len) /\ SyncScan(v, at + 4 + ToInt(len)))

\* C8: when the scan of a sample stops, sync is true exactly if some unit
\* with at least 5 bytes remaining at its start has type 5.
C8_SyncIffIdrUnitReached ==
    (pc = "scan" /\ ~ ScanCond(p, buf)) => (rap <=> SyncScan(buf, 0))

---------------------------------------------------------------------------
(* Properties of the box parser and writer (under SpecParse)               *)

\* the box of a history record lies inside the stream
InsideStream(d) == d.start + d.size <= Len(isBytes)

\* C9: after any box that lies inside the stream has been decoded, a leaf
\* that returned early on an unhandled version included, the cursor is at
\* box_start + declared_size.
C9_CursorAtBoxEnd ==
    \A k \in 1 .. Len(decoded) :
        InsideStream(decoded[k]) =>
            decoded[k].after = decoded[k].start + decoded[k].size

\* the same for every class but the movie header: those do end at the
\* box's end
CursorAtBoxEndButMvhd ==
    \A k \in 1 .. Len(decoded) :
        InsideStream(decoded[k]) /\ decoded[k].kind # "mvhd" =>
            decoded[k].after = decoded[k].start + decoded[k].size

\* a box and the boxes below it
RECURSIVE Subtree(_)
Subtree(node) ==
    { node } \cup UNION { Subtree(node.children[k]) :
                            k \in 1 .. Len(node.children) }

\* every box of the parsed tree
AllNodes == UNION { Subtree(root[k]) : k \in 1 .. Len(root) }

\* the box and all boxes below it were decoded into fields or payload
\* (a skipped large box keeps only its offset)
Retained(node) == \A m \in Subtree(node) : m.kind # "ref"

\* the bytes of the stream the box was decoded from
OriginalBytes(node) == SubSeq(isBytes, node.start + 1, node.start + node.size)

\* C10: parse followed by write emits, for every box decoded with retained
\* fields or payload that lies inside the stream, the bytes it was decoded
\* from.
C10_WriteReproducesBox ==
    ppc = "written" =>
        \A node \in AllNodes :
            Retained(node) /\ InsideStream(node) =>
                BoxWrite(node) = OriginalBytes(node)

\* the same with the movie headers of a version other than 0, and the
\* containers holding one, left out
WriteReproducesVersion0 ==
    ppc = "written" =>
        \A node \in AllNodes :
            /\ Retained(node) /\ InsideStream(node)
            /\ \A m \in Subtree(node) : ~(m.kind = "mvhd" /\ m.version # 0)
            => BoxWrite(node) = OriginalBytes(node)

\* the read of sample i (lines 87-88) ran past the end of the source
ShortRead == pc = "scan" /\ ifsFail

\* C11: once the read of a sample has run past the end of the source, the
\* conversion aborts: no tag for that sample or any later one is written.
C11_TruncatedSampleAborts ==
    [][ShortRead => (tags' = tags /\ out' = out /\ pc' # "loop")]_vars

\* a box the pipeline requires is absent from the first track
RequiredBoxMissing ==
    \/ ~ track \/ tkhd = NoBox \/ mdhd = NoBox \/ stsd = NoBox
    \/ stsc = NoBox \/ stco = NoBox \/ stsz = NoBox \/ stts = NoBox

\* C12: when the tree has no track box, or the first track lacks one of its
\* required leaves, the run ends before the codec configuration is emitted
\* and no tag is written; only the composition-offset table may be absent,
\* and then every sample's composition offset is 0.
C12_MissingBoxIsFatalBeforeOutput ==
    /\ (pc # "off" /\ RequiredBoxMissing) =>
          (pc \in { "start", "config", "segv" } /\ tags = << >>)
    /\ (pc = "scan" /\ ctts = NoBox) => timeOffset = W32(0)

\* the same for the boxes main() uses before it opens the output
MissingEarlyBoxStopsRun ==
    (pc # "off" /\ NullBeforeOutput) => (pc \in { "start", "segv" } /\ out = << >>)

\* the runs of a composition-offset payload as pairs of words
CttsRunsOf(box) ==
    [k \in 1 .. ToInt(BoxCTTS_count(box)) |->
        << BoxCTTS_runCount(box, k - 1), BoxCTTS_offset(box, k - 1) >>]

\* the composition offset of sample n: the offset of the run containing n,
\* 0 without a table
CompositionOffset(n) ==
    IF ctts = NoBox THEN W32(0)
    ELSE LET runs == CttsRunsOf(ctts)
             r == CHOOSE j \in 1 .. Len(runs) :
                      RunsSamples(runs, j - 1) <= n /\ n < RunsSamples(runs, j)
         IN  runs[r][2]

\* floor(v * 1000 / scale) with the full product: 96-bit arithmetic holds
\* the product of any 64-bit v with 1000
ExactMillis(v, scale) == DivW(MulW(v, W32(1000), 12), scale, 12)

\* the 32-bit timestamp (24 bits, then the 8-bit extension) and the 24-bit
\* composition-time offset of a written sample tag, read back from `out`
TagTimestampWord(t) ==
    << out[t.start + 7], out[t.start + 6], out[t.start + 5], out[t.start + 8] >>
TagCompositionWord(t) ==
    << out[t.start + 16], out[t.start + 15], out[t.start + 14] >>

\* C13: every sample tag's timestamp is floor(sampleToTime(n) * 1000 /
\* timescale) and its composition-time offset is floor(offset(n) * 1000 /
\* timescale), the products being exact, as far as the 32-bit and 24-bit
\* fields hold them.
C13_TimestampsRescaledExactly ==
    \A k \in 2 .. Len(tags) :
        LET n == tags[k].sample
            scale == BoxMDHD_timeScale(mdhd)
        IN  /\ TagTimestampWord(tags[k]) =
                  Cast(ExactMillis(BoxSTTS_sampleToTime(stts, W32(n)), scale), 4)
            /\ TagCompositionWord(tags[k]) =
                  Cast(ExactMillis(CompositionOffset(n), scale), 3)

\* the timestamp half alone
TimestampRescaledExactly ==
    \A k \in 2 .. Len(tags) :
        TagTimestampWord(tags[k]) =
            Cast(ExactMillis(BoxSTTS_sampleToTime(stts, W32(tags[k].sample)),
                             BoxMDHD_timeScale(mdhd)), 4)

\* the type is neither a container nor a leaf createBox knows
Unrecognised(type) == BoxKind(type, 0) = "unknown"

\* C14: a box of an unrecognised type is decoded as a skipped box (offset
\* only, no payload) when its declared size is at or above LargeBoxSize and
\* as a preserved box holding declared size - 8 payload bytes when it is
\* below; decoding it is never an error.
C14_UnknownBoxSkippedOrPreserved ==
    /\ \A node \in AllNodes :
          Unrecognised(node.type) =>
              IF node.size >= LargeBoxSize
              THEN node.kind = "ref" /\ node.body = << >>
              ELSE node.kind = "unknown" /\ Len(node.body) = node.size - 8
    /\ ~(ppc = "abort" /\ Unrecognised(HeaderType))

\* the same with the limit exclusive and boxes shorter than their header
\* left out
UnknownBoxAboveLimitSkipped ==
    /\ \A node \in AllNodes :
          Unrecognised(node.type) =>
              IF node.size > LargeBoxSize
              THEN node.kind = "ref" /\ node.body = << >>
              ELSE node.kind = "unknown" /\ Len(node.body) = node.size - 8
    /\ (ppc = "abort" /\ Unrecognised(HeaderType)) => HeaderSize < 8

\* the big-endian field of len bytes at index pos of a payload, widened to
\* width bytes
Field(bytes, pos, len, width) ==
    Cast([k \in 1 .. len |-> bytes[pos + len + 1 - k]], width)

\* where a header field lies: the time fields before it are 4 bytes wide
\* under version 0 and 8 bytes wide under version 1; the track header has a
\* reserved word before its duration
FieldOffset(fn, version) ==
    LET t == IF version = 0 THEN 4 ELSE 8
    IN  CASE fn \in { "mdhd.created", "tkhd.created" } -> 0
          [] fn \in { "mdhd.modified", "tkhd.modified" } -> t
          [] fn \in { "mdhd.timeScale", "tkhd.trackId" } -> 2 * t
          [] fn = "mdhd.duration" -> 2 * t + 4
          [] fn = "tkhd.duration" -> 2 * t + 4 + 4

TimeFields ==
    { "mdhd.created", "mdhd.modified", "mdhd.duration",
      "tkhd.created", "tkhd.modified", "tkhd.duration" }

\* C15: the creation, modification and duration accessors of a media or
\* track header return the 32-bit field under version 0 and the whole 64-bit
\* field under version 1; timescale and track id return the 32-bit field
\* behind the two time fields of the version's width.
C15_HeaderAccessorsByVersion ==
    (query.fn \in MdhdAccessors \cup TkhdAccessors /\ result # None) =>
        result =
            IF query.fn \in TimeFields
            THEN Field(query.buf, FieldOffset(query.fn, query.n),
                       IF query.n = 0 THEN 4 ELSE 8, 8)
            ELSE Field(query.buf, FieldOffset(query.fn, query.n), 4, 4)

\* the same for version 0 headers, for version 1 headers whose time fields
\* are below 2^32, and for timescale and track id
HeaderAccessorsBelow32Bits ==
    (query.fn \in MdhdAccessors \cup TkhdAccessors /\ result # None) =>
        LET at == FieldOffset(query.fn, query.n)
        IN  (query.fn \in TimeFields /\ query.n # 0
               => Field(query.buf, at, 4, 4) = W32(0))
            => result =
                  IF query.fn \in TimeFields
                  THEN Field(query.buf, at, IF query.n = 0 THEN 4 ELSE 8, 8)
                  ELSE Field(query.buf, at, 4, 4)

\* the keyframe scan is at a unit of the sample read
AtUnit == pc = "scan" /\ ScanCond(p, buf)

\* C16: at every unit of the keyframe scan the iteration moves the 32-bit
\* position strictly forward, whatever the unit's length field holds, so
\* the scan of a sample ends.
C16_ScanPositionIncreases ==
    AtUnit => \A g \in GarbageWords :
                  LtW(p, ScanAdvance(p, UnitLength(p, buf, g)))

\* the same for the units at which p + sz + 4 is below 2^32
ScanPositionIncreasesUnlessWrap ==
    AtUnit => \A g \in GarbageWords :
                  LET sz == UnitLength(p, buf, g)
                      sum == AddW(Cast(p, 8), AddW(Cast(sz, 8), W64(4), 8), 8)
                  IN  sum = Cast(ScanAdvance(p, sz), 8)
                         => LtW(p, ScanAdvance(p, sz))

=============================================================================
